---------------------------- MODULE Spec2Model ----------------------------
(***************************************************************************)
(* A model of the Vonage Go SDK core:                                      *)
(*   - the video session cache (vonage/video/client.go, video/types.go),   *)
(*   - the inbound webhook handlers and the inbound-message decoder        *)
(*     (pkg/vonage/messages/webhook.go, types.go),                         *)
(*   - the NCCO builder (pkg/vonage/voice/ncco.go).                        *)
(* Each subsystem has its own next-state relation over the shared Init.    *)
(***************************************************************************)
EXTENDS Integers, Sequences, FiniteSets, TLC

(***************************************************************************)
(* Bounds of the model.                                                    *)
(***************************************************************************)
\* the clock runs over 0..MaxTime
MaxTime == 2
\* at most this many creation calls are started in one run
MaxCalls == 2
\* at most this many calls are made on an NCCOBuilder and its sub-builders
\* in one run, not counting Build
MaxBuilderCalls == 6

\* DefaultSessionTTL (24h), in clock ticks of the model (one tick = 24h)
DefaultSessionTTL == 1

\* goroutines calling into one video.Client
Procs == {"g1", "g2"}
\* the goroutine of the sequential scenarios
SeqProc == "g1"
\* spot ids passed by callers; "" is the SpotID of CreateSession's records
Spots == {"spot-A", "spot-B"}

VARIABLES
    client,     \* video.Client: appID and jwtGenerator, fixed at construction
    sessions,   \* video.Client.sessions: map from SessionID to *Session
    readers,    \* goroutines holding video.Client.mu in read mode
    now,        \* the wall clock read by time.Now()
    nextId,     \* the next session id the remote API assigns
    ncalls,     \* creation calls started so far
    pc,         \* per goroutine: position inside its current call
    call,       \* per goroutine: the call in progress (op, spotID, session built)
    ret,        \* what the last completed call of the client's API returned
    handler,    \* messages.WebhookHandler: which callbacks are registered
    hook,       \* the last webhook request or payload handled and its outcome
    actions,    \* voice.NCCOBuilder.actions
    sub,        \* the sub-builders (TalkBuilder, ...) the caller holds
    built,      \* what the last Build() returned
    log,        \* history: every action finalized, as it was when finalized, in order
    nops,       \* calls made so far on the NCCOBuilder and its sub-builders
    wall,       \* the wall clock read by the token code, in ticks of 1/Second s
    uuids,      \* uuid.New() calls made so far
    minted,     \* history: the jti claim of every JWT signed so far, in order
    mint        \* the last token or constructor call and what it returned

cacheVars == <<client, sessions, readers, now, nextId, ncalls, pc, call, ret>>
hookVars == <<handler, hook>>
nccoVars == <<actions, sub, built, log, nops>>

tokenVars == <<wall, uuids, minted, mint>>

vars == <<cacheVars, hookVars, nccoVars, tokenVars>>

(***************************************************************************)
(* Session ids, sessions, errors.                                          *)
(***************************************************************************)
\* the empty string as a SessionID
EmptyID == [kind |-> "", n |-> 0]
\* an id assigned by the remote API
RealID(n) == [kind |-> "real", n |-> n]
\* fmt.Sprintf("mock_%s_%d", appIDPrefix, time.Now().UnixNano())
MockID(t) == [kind |-> "mock_", n |-> t]

\* a nil *Session
NilSession == [nil |-> TRUE]

ErrNil == "nil"
ErrSessionNotFound == "vonage: session not found"
ErrSessionExpired == "vonage: session expired"

\* a sweep that also takes the records expiring at this very instant
IsExpiredInclusive(s, t) == t >= s.ExpiresAt

\* time.Now().After(s.ExpiresAt)
IsExpired(s, t) == t > s.ExpiresAt

\* a validity check that does not look at the id
IsValidAnyID(s, t) == ~IsExpired(s, t)

\* s.SessionID != "" && !s.IsExpired()
IsValid(s, t) == s.SessionID # EmptyID /\ ~IsExpired(s, t)

\* c.jwtGenerator != nil && c.appID != ""
IsConfigured(c) == c.jwtGenerator # "nil" /\ c.appID # ""

\* the clients NewClient can construct: with or without appID, with no JWT
\* generator, a generator without private key, or a generator with a key
Clients ==
    { [appID |-> "app-id-1", jwtGenerator |-> "key"],
      [appID |-> "app-id-1", jwtGenerator |-> "nokey"],
      [appID |-> "",         jwtGenerator |-> "key"],
      [appID |-> "app-id-1", jwtGenerator |-> "nil"] }

(***************************************************************************)
(* The map c.sessions.                                                     *)
(***************************************************************************)
EmptyMap == [id \in {} |-> NilSession]

\* an insert that reuses the key of a cached record of the same spot
MapPutUnderSpotKey(m, id, s) ==
    LET same == {k \in DOMAIN m : m[k].SpotID = s.SpotID}
        key == IF same = {} THEN id ELSE CHOOSE k \in same : TRUE
    IN  [k \in (DOMAIN m) \cup {key} |-> IF k = key THEN s ELSE m[k]]

\* an insert that replaces the records of the same spot
MapPutByTopic(m, id, s) ==
    [k \in {x \in DOMAIN m : m[x].SpotID # s.SpotID \/ s.SpotID = ""} \cup {id} |->
        IF k = id THEN s ELSE m[k]]

\* c.sessions[id] = s
MapPut(m, id, s) == [k \in (DOMAIN m) \cup {id} |-> IF k = id THEN s ELSE m[k]]

\* delete(c.sessions, id)
MapDelete(m, id) == [k \in (DOMAIN m) \ {id} |-> m[k]]

\* len(c.sessions)
MapLen(m) == Cardinality(DOMAIN m)

\* the records the scan `for _, session := range c.sessions` can return for
\* spotID: Go iterates a map in an unspecified order and the loop returns the
\* first record with session.SpotID == spotID && session.IsValid()
ScanHits(m, spotID, t) ==
    { id \in DOMAIN m : m[id].SpotID = spotID /\ IsValid(m[id], t) }

(***************************************************************************)
(* createSessionViaAPI: the outcomes of the remote call.                   *)
(***************************************************************************)
\* what the environment can answer once a token was minted
ApiOutcomes ==
    { "request_err",    \* http.NewRequest fails
      "transport_err",  \* httpClient.Do fails
      "status_err",     \* resp.StatusCode != 200
      "parse_err",      \* body is neither an array nor an object
      "empty_err",      \* body is the empty array
      "ok_id",          \* 200 with a session_id
      "ok_noid" }       \* 200 with an object that carries no session_id

\* GenerateAPIJWT fails iff the generator has no private key
JwtFails(c) == c.jwtGenerator = "nokey"

\* a remote creation whose records are marked as mock
createSessionViaAPIMarked(c, outcome, id, t) ==
    IF JwtFails(c) \/ outcome \notin {"ok_id", "ok_noid"}
    THEN [session |-> NilSession, err |-> "API request failed"]
    ELSE [session |-> [SessionID |-> IF outcome = "ok_id" THEN id ELSE EmptyID,
                       SpotID    |-> "",
                       CreatedAt |-> t,
                       ExpiresAt |-> t + DefaultSessionTTL,
                       IsMock    |-> TRUE],
          err |-> ErrNil]

\* the (session, err) pair createSessionViaAPI returns
createSessionViaAPI(c, outcome, id, t) ==
    IF JwtFails(c) THEN [session |-> NilSession, err |-> "failed to generate API JWT"]
    ELSE IF outcome = "request_err" THEN [session |-> NilSession, err |-> "failed to create request"]
    ELSE IF outcome = "transport_err" THEN [session |-> NilSession, err |-> "API request failed"]
    ELSE IF outcome = "status_err" THEN [session |-> NilSession, err |-> "vonage: status"]
    ELSE IF outcome = "parse_err" THEN [session |-> NilSession, err |-> "failed to parse response"]
    ELSE IF outcome = "empty_err" THEN [session |-> NilSession, err |-> "empty response from API"]
    ELSE [session |-> [SessionID |-> IF outcome = "ok_id" THEN id ELSE EmptyID,
                       SpotID    |-> "",
                       CreatedAt |-> t,
                       ExpiresAt |-> t + DefaultSessionTTL,
                       IsMock    |-> FALSE],
          err |-> ErrNil]

\* a fallback record that is not marked as mock
MockSessionUnmarked(spotID, t) ==
    [SessionID |-> MockID(t),
     SpotID    |-> spotID,
     CreatedAt |-> t,
     ExpiresAt |-> t + DefaultSessionTTL,
     IsMock    |-> FALSE]

\* the record createMockSession builds before it takes the lock
MockSession(spotID, t) ==
    [SessionID |-> MockID(t),
     SpotID    |-> spotID,
     CreatedAt |-> t,
     ExpiresAt |-> t + DefaultSessionTTL,
     IsMock    |-> TRUE]

(***************************************************************************)
(* Bookkeeping of calls and returns.                                       *)
(***************************************************************************)
NoCall == [op |-> "none", spotID |-> "", session |-> NilSession, api |-> "none"]

\* a completed call: the operation, its caller and argument, the (session,
\* err) or count it returned, and whether it went through createSessionViaAPI
Returned(op, p, arg, session, err, api, n) ==
    [op |-> op, proc |-> p, arg |-> arg, session |-> session, err |-> err,
     api |-> api, n |-> n]

NoRet == Returned("none", "", "", NilSession, ErrNil, "none", 0)

\* a creation call returns (session, err) to its caller
Return(p, session, err) ==
    /\ ret' = Returned(call[p].op, p, call[p].spotID, session, err, call[p].api, 0)
    /\ call' = [call EXCEPT ![p] = NoCall]
    /\ pc' = [pc EXCEPT ![p] = "idle"]

\* NewClient: an empty cache, for any of the given clients
CacheInit(clients) ==
    /\ client \in clients
    /\ sessions = EmptyMap
    /\ readers = {}
    /\ now = 0
    /\ nextId = 1
    /\ ncalls = 0
    /\ pc = [p \in Procs |-> "idle"]
    /\ call = [p \in Procs |-> NoCall]
    /\ ret = NoRet

(***************************************************************************)
(* CreateSession                                                           *)
(***************************************************************************)
\* entry of CreateSession: IsConfigured decides between the remote call and
\* createMockSession("")
CreateSession(p) ==
    /\ pc[p] = "idle"
    /\ ncalls < MaxCalls
    /\ ncalls' = ncalls + 1
    /\ call' = [call EXCEPT ![p] = [NoCall EXCEPT !.op = "CreateSession"]]
    /\ pc' = [pc EXCEPT ![p] = IF IsConfigured(client) THEN "api" ELSE "mock"]
    /\ UNCHANGED <<client, sessions, readers, now, nextId, ret, hookVars, nccoVars, tokenVars>>

(***************************************************************************)
(* CreateSessionForSpot and GetOrCreateSession                             *)
(***************************************************************************)
\* c.mu.RLock() at the top of CreateSessionForSpot
CreateSessionForSpot(p, spotID) ==
    /\ pc[p] = "idle"
    /\ ncalls < MaxCalls
    /\ ncalls' = ncalls + 1
    /\ call' = [call EXCEPT ![p] = [NoCall EXCEPT !.op = "CreateSessionForSpot",
                                                  !.spotID = spotID]]
    /\ readers' = readers \cup {p}
    /\ pc' = [pc EXCEPT ![p] = "scan"]
    /\ UNCHANGED <<client, sessions, now, nextId, ret, hookVars, nccoVars, tokenVars>>

\* c.mu.RLock() at the top of GetOrCreateSession
GetOrCreateSession(p, spotID) ==
    /\ pc[p] = "idle"
    /\ ncalls < MaxCalls
    /\ ncalls' = ncalls + 1
    /\ call' = [call EXCEPT ![p] = [NoCall EXCEPT !.op = "GetOrCreateSession",
                                                  !.spotID = spotID]]
    /\ readers' = readers \cup {p}
    /\ pc' = [pc EXCEPT ![p] = "goc_scan"]
    /\ UNCHANGED <<client, sessions, now, nextId, ret, hookVars, nccoVars, tokenVars>>

\* a scan of GetOrCreateSession that takes any record of the spot
GocScanAnyRecord(p) ==
    /\ pc[p] = "goc_scan"
    /\ readers' = readers \ {p}
    /\ \/ \E id \in {x \in DOMAIN sessions : sessions[x].SpotID = call[p].spotID} :
             Return(p, sessions[id], ErrNil)
       \/ /\ \A id \in DOMAIN sessions : sessions[id].SpotID # call[p].spotID
          /\ pc' = [pc EXCEPT ![p] = "relock"]
          /\ UNCHANGED <<call, ret>>
    /\ UNCHANGED <<client, sessions, now, nextId, ncalls, hookVars, nccoVars, tokenVars>>

\* the scan of GetOrCreateSession under the read lock: a hit returns the
\* record, a miss unlocks and calls CreateSessionForSpot, which locks again
GocScan(p) ==
    /\ pc[p] = "goc_scan"
    /\ readers' = readers \ {p}
    /\ \/ \E id \in ScanHits(sessions, call[p].spotID, now) :
             Return(p, sessions[id], ErrNil)
       \/ /\ ScanHits(sessions, call[p].spotID, now) = {}
          /\ pc' = [pc EXCEPT ![p] = "relock"]
          /\ UNCHANGED <<call, ret>>
    /\ UNCHANGED <<client, sessions, now, nextId, ncalls, hookVars, nccoVars, tokenVars>>

\* c.mu.RLock() of the CreateSessionForSpot called by GetOrCreateSession
Relock(p) ==
    /\ pc[p] = "relock"
    /\ readers' = readers \cup {p}
    /\ pc' = [pc EXCEPT ![p] = "scan"]
    /\ UNCHANGED <<client, sessions, now, nextId, ncalls, call, ret, hookVars, nccoVars, tokenVars>>

\* a scan that unlocks on a hit only
CsfsScanHoldsLock(p) ==
    /\ pc[p] = "scan"
    /\ \/ /\ readers' = readers \ {p}
          /\ \E id \in ScanHits(sessions, call[p].spotID, now) :
                Return(p, sessions[id], ErrNil)
       \/ /\ ScanHits(sessions, call[p].spotID, now) = {}
          /\ pc' = [pc EXCEPT ![p] = IF IsConfigured(client) THEN "api" ELSE "mock"]
          /\ UNCHANGED <<call, ret, readers>>
    /\ UNCHANGED <<client, sessions, now, nextId, ncalls, hookVars, nccoVars, tokenVars>>

\* the scan of CreateSessionForSpot under the read lock: a hit returns the
\* record; a miss unlocks and goes on to IsConfigured
CsfsScan(p) ==
    /\ pc[p] = "scan"
    /\ readers' = readers \ {p}
    /\ \/ \E id \in ScanHits(sessions, call[p].spotID, now) :
             Return(p, sessions[id], ErrNil)
       \/ /\ ScanHits(sessions, call[p].spotID, now) = {}
          /\ pc' = [pc EXCEPT ![p] = IF IsConfigured(client) THEN "api" ELSE "mock"]
          /\ UNCHANGED <<call, ret>>
    /\ UNCHANGED <<client, sessions, now, nextId, ncalls, hookVars, nccoVars, tokenVars>>

\* createSessionViaAPI returns: on an error the caller falls back to
\* createMockSession, otherwise it stamps SpotID (CreateSessionForSpot only)
\* and goes on to insert
ApiCall(p) ==
    /\ pc[p] = "api"
    /\ \E outcome \in ApiOutcomes :
         LET r == createSessionViaAPI(client, outcome, RealID(nextId), now)
             fresh == outcome = "ok_id" /\ ~JwtFails(client)
         IN
         /\ nextId' = IF fresh THEN nextId + 1 ELSE nextId
         /\ IF r.err # ErrNil
            THEN /\ call' = [call EXCEPT ![p].api = "failed"]
                 /\ pc' = [pc EXCEPT ![p] = "mock"]
            ELSE /\ call' = [call EXCEPT ![p].api = "ok",
                                         ![p].session =
                                            IF call[p].op = "CreateSession" THEN r.session
                                            ELSE [r.session EXCEPT !.SpotID = call[p].spotID]]
                 /\ pc' = [pc EXCEPT ![p] = "insert"]
    /\ UNCHANGED <<client, sessions, readers, now, ncalls, ret, hookVars, nccoVars, tokenVars>>

\* c.mu.Lock(); c.sessions[session.SessionID] = session; c.mu.Unlock(); return
Insert(p) ==
    /\ pc[p] = "insert"
    /\ readers = {}
    /\ sessions' = MapPut(sessions, call[p].session.SessionID, call[p].session)
    /\ Return(p, call[p].session, ErrNil)
    /\ UNCHANGED <<client, readers, now, nextId, ncalls, hookVars, nccoVars, tokenVars>>

\* createMockSession up to the lock: the id and the times are read from the clock
MockMake(p) ==
    /\ pc[p] = "mock"
    /\ call' = [call EXCEPT ![p].session = MockSession(call[p].spotID, now)]
    /\ pc' = [pc EXCEPT ![p] = "mock_insert"]
    /\ UNCHANGED <<client, sessions, readers, now, nextId, ncalls, ret, hookVars, nccoVars, tokenVars>>

\* createMockSession: c.mu.Lock(); c.sessions[sessionID] = session; Unlock; return
MockInsert(p) ==
    /\ pc[p] = "mock_insert"
    /\ readers = {}
    /\ sessions' = MapPut(sessions, call[p].session.SessionID, call[p].session)
    /\ Return(p, call[p].session, ErrNil)
    /\ UNCHANGED <<client, readers, now, nextId, ncalls, hookVars, nccoVars, tokenVars>>

(***************************************************************************)
(* GetSession, CleanupExpiredSessions, CachedSessionCount                  *)
(***************************************************************************)
\* the session ids a caller may ask for
SessionIDs ==
    {EmptyID} \cup {RealID(n) : n \in 1..MaxCalls} \cup {MockID(t) : t \in 0..MaxTime}

\* a lookup that forgets the expiry check
GetSessionNoExpiry(m, sessionID, t) ==
    IF sessionID \notin DOMAIN m THEN [session |-> NilSession, err |-> ErrSessionNotFound]
    ELSE [session |-> m[sessionID], err |-> ErrNil]

\* the (session, err) pair GetSession returns
GetSessionResult(m, sessionID, t) ==
    IF sessionID \notin DOMAIN m THEN [session |-> NilSession, err |-> ErrSessionNotFound]
    ELSE IF IsExpired(m[sessionID], t) THEN [session |-> NilSession, err |-> ErrSessionExpired]
    ELSE [session |-> m[sessionID], err |-> ErrNil]

\* a GetSession that deletes the expired record it finds
GetSessionEvicting(sessionID) ==
    /\ readers = {}
    /\ LET r == GetSessionResult(sessions, sessionID, now) IN
       /\ ret' = Returned("GetSession", "", sessionID, r.session, r.err, "none", 0)
       /\ sessions' = IF r.err = ErrSessionExpired THEN MapDelete(sessions, sessionID)
                      ELSE sessions
    /\ UNCHANGED <<client, readers, now, nextId, ncalls, pc, call, hookVars, nccoVars, tokenVars>>

\* GetSession runs under the read lock from entry to return
GetSession(sessionID) ==
    /\ LET r == GetSessionResult(sessions, sessionID, now) IN
       ret' = Returned("GetSession", "", sessionID, r.session, r.err, "none", 0)
    /\ UNCHANGED <<client, sessions, readers, now, nextId, ncalls, pc, call, hookVars, nccoVars, tokenVars>>

\* the loop of CleanupExpiredSessions over the ids still to visit:
\* delete(c.sessions, id); count++ for every expired record
RECURSIVE CleanupLoop(_, _, _, _)
CleanupLoop(m, todo, count, t) ==
    IF todo = {} THEN [sessions |-> m, count |-> count]
    ELSE LET id == CHOOSE x \in todo : TRUE IN
         IF IsExpired(m[id], t)
         THEN CleanupLoop(MapDelete(m, id), todo \ {id}, count + 1, t)
         ELSE CleanupLoop(m, todo \ {id}, count, t)

\* CleanupExpiredSessions runs under the write lock from entry to return
CleanupExpiredSessions ==
    /\ readers = {}
    /\ LET r == CleanupLoop(sessions, DOMAIN sessions, 0, now) IN
       /\ sessions' = r.sessions
       /\ ret' = Returned("CleanupExpiredSessions", "", "", NilSession, ErrNil, "none", r.count)
    /\ UNCHANGED <<client, readers, now, nextId, ncalls, pc, call, hookVars, nccoVars, tokenVars>>

\* CachedSessionCount runs under the read lock
CachedSessionCount ==
    /\ ret' = Returned("CachedSessionCount", "", "", NilSession, ErrNil, "none", MapLen(sessions))
    /\ UNCHANGED <<client, sessions, readers, now, nextId, ncalls, pc, call, hookVars, nccoVars, tokenVars>>

\* time passes
Tick ==
    /\ now < MaxTime
    /\ now' = now + 1
    /\ UNCHANGED <<client, sessions, readers, nextId, ncalls, pc, call, ret, hookVars, nccoVars, tokenVars>>

(***************************************************************************)
(* Inbound webhooks: request bodies.                                       *)
(***************************************************************************)
\* http.StatusOK
StatusOK == 200

\* A request body, by what encoding/json makes of it:
\*   readErr       io.ReadAll(r.Body) fails
\*   syntax        "malformed": not JSON at all; "object": a JSON object
\*   modernTypes   the values fit the field types of InboundMessage (a
\*                 "timestamp" that is not RFC 3339 or a "from" that is an
\*                 object make json.Unmarshal fail)
\*   legacyTypes   the values fit the field types of InboundSMS
\*   statusTypes   the values fit the field types of MessageStatus
\* and the values of the keys the decoders read ("" when the key is absent).
ZeroBody ==
    [readErr |-> FALSE, syntax |-> "object",
     modernTypes |-> TRUE, legacyTypes |-> TRUE, statusTypes |-> TRUE,
     message_uuid |-> "", from |-> "", to |-> "", channel |-> "",
     message_type |-> "", text |-> "", image |-> "nil",
     msisdn |-> "", messageId |-> "", message_timestamp |-> ""]

\* the other keys are all present ("full") or all absent ("bare")
ObjectBodies ==
    { [ZeroBody EXCEPT !.modernTypes = mt, !.legacyTypes = lt, !.statusTypes = st,
                       !.message_uuid = uuid,
                       !.msisdn = msisdn,
                       !.to = "81501234567",
                       !.text = "hi",
                       !.from = IF rest = "full" THEN "81901234567" ELSE "",
                       !.channel = IF rest = "full" THEN "whatsapp" ELSE "",
                       !.message_type = IF rest = "full" THEN "image" ELSE "",
                       !.image = IF rest = "full" THEN "img-1" ELSE "nil",
                       !.messageId = IF rest = "full" THEN "msg-001" ELSE "",
                       !.message_timestamp =
                           IF rest = "full" THEN "2024-01-01 12:00:00" ELSE ""] :
        mt \in BOOLEAN, lt \in BOOLEAN, st \in BOOLEAN,
        uuid \in {"", "uuid-001"}, msisdn \in {"", "81907654321"},
        rest \in {"bare", "full"} }

Bodies ==
    ObjectBodies
      \cup { [ZeroBody EXCEPT !.syntax = "malformed"],
             [ZeroBody EXCEPT !.readErr = TRUE] }

(***************************************************************************)
(* InboundMessage, InboundSMS and their decoding.                          *)
(***************************************************************************)
NilMessage == [nil |-> TRUE]

ChannelSMS == "sms"

\* the zero time.Time
ZeroTime == "0001-01-01T00:00:00Z"

\* json.Unmarshal(body, &msg) for var msg InboundMessage
UnmarshalInboundMessage(body) ==
    [err |-> body.syntax # "object" \/ ~body.modernTypes,
     msg |-> IF body.syntax # "object"
             THEN [MessageUUID |-> "", From |-> "", To |-> "", Timestamp |-> ZeroTime,
                   Channel |-> "", MessageType |-> "", Text |-> "", Image |-> "nil"]
             ELSE [MessageUUID |-> body.message_uuid, From |-> body.from,
                   To |-> body.to, Timestamp |-> ZeroTime,
                   Channel |-> body.channel, MessageType |-> body.message_type,
                   Text |-> body.text, Image |-> body.image]]

\* json.Unmarshal(body, &sms) for var sms InboundSMS
UnmarshalInboundSMS(body) ==
    [err |-> body.syntax # "object" \/ ~body.legacyTypes,
     sms |-> IF body.syntax # "object"
             THEN [MSISDN |-> "", To |-> "", MessageID |-> "", Text |-> "",
                   Timestamp |-> ""]
             ELSE [MSISDN |-> body.msisdn, To |-> body.to, MessageID |-> body.messageId,
                   Text |-> body.text, Timestamp |-> body.message_timestamp]]

\* json.Unmarshal(body, &status) for var status MessageStatus
UnmarshalMessageStatus(body) ==
    [err |-> body.syntax # "object" \/ ~body.statusTypes,
     status |-> [MessageUUID |-> IF body.syntax = "object" THEN body.message_uuid ELSE ""]]

\* InboundSMS.ToInboundMessage
ToInboundMessage(sms) ==
    [MessageUUID |-> sms.MessageID, From |-> sms.MSISDN, To |-> sms.To,
     Timestamp |-> ZeroTime, Channel |-> ChannelSMS, MessageType |-> "text",
     Text |-> sms.Text, Image |-> "nil"]

\* a decoder that tries the legacy format before the modern one
ParseLegacyFirst(body) ==
    LET m == UnmarshalInboundMessage(body)
        s == UnmarshalInboundSMS(body)
    IN  IF ~s.err /\ s.sms.MSISDN # "" THEN [msg |-> ToInboundMessage(s.sms), err |-> ErrNil]
        ELSE IF ~m.err /\ m.msg.MessageUUID # "" THEN [msg |-> m.msg, err |-> ErrNil]
        ELSE [msg |-> NilMessage, err |-> "unknown inbound message format"]

\* ParseInboundMessage, refusing a payload both formats accept
ParseRejectsAmbiguous(body) ==
    LET m == UnmarshalInboundMessage(body)
        s == UnmarshalInboundSMS(body)
        modern == ~m.err /\ m.msg.MessageUUID # ""
        legacy == ~s.err /\ s.sms.MSISDN # ""
    IN  IF modern /\ ~legacy THEN [msg |-> m.msg, err |-> ErrNil]
        ELSE IF legacy /\ ~modern THEN [msg |-> ToInboundMessage(s.sms), err |-> ErrNil]
        ELSE [msg |-> NilMessage, err |-> "unknown inbound message format"]

\* ParseInboundMessage: the (msg, err) pair it returns
ParseInboundMessage(body) ==
    LET m == UnmarshalInboundMessage(body)
        s == UnmarshalInboundSMS(body)
    IN  IF ~m.err /\ m.msg.MessageUUID # "" THEN [msg |-> m.msg, err |-> ErrNil]
        ELSE IF ~s.err /\ s.sms.MSISDN # "" THEN [msg |-> ToInboundMessage(s.sms), err |-> ErrNil]
        ELSE [msg |-> NilMessage, err |-> "unknown inbound message format"]

(***************************************************************************)
(* WebhookHandler                                                          *)
(***************************************************************************)
\* what a handler did with one request: the callbacks it invoked, in order,
\* and the status codes it passed to w.WriteHeader, in order
Response(invoked, written, args) ==
    [invoked |-> invoked, written |-> written, args |-> args]

\* a handler that answers 500 when the callback returns an error
HandleInboundStrict(h, body, cbErr) ==
    LET m == UnmarshalInboundMessage(body)
        s == UnmarshalInboundSMS(body)
        code == IF cbErr THEN 500 ELSE StatusOK
    IN  IF body.readErr THEN Response(<<>>, <<StatusOK>>, <<>>)
        ELSE IF ~m.err /\ m.msg.MessageUUID # ""
        THEN IF h.onInbound THEN Response(<<"onInbound">>, <<code>>, <<m.msg>>)
             ELSE Response(<<>>, <<StatusOK>>, <<>>)
        ELSE IF ~s.err /\ s.sms.MSISDN # ""
        THEN IF h.onLegacy THEN Response(<<"onLegacy">>, <<code>>, <<s.sms>>)
             ELSE IF h.onInbound
                  THEN Response(<<"onInbound">>, <<code>>, <<ToInboundMessage(s.sms)>>)
             ELSE Response(<<>>, <<StatusOK>>, <<>>)
        ELSE Response(<<>>, <<StatusOK>>, <<>>)

\* a handler that passes a legacy payload to both callbacks
HandleInboundBoth(h, body, cbErr) ==
    LET m == UnmarshalInboundMessage(body)
        s == UnmarshalInboundSMS(body)
    IN  IF body.readErr THEN Response(<<>>, <<StatusOK>>, <<>>)
        ELSE IF ~m.err /\ m.msg.MessageUUID # ""
        THEN IF h.onInbound THEN Response(<<"onInbound">>, <<StatusOK>>, <<m.msg>>)
             ELSE Response(<<>>, <<StatusOK>>, <<>>)
        ELSE IF ~s.err /\ s.sms.MSISDN # ""
        THEN Response((IF h.onLegacy THEN <<"onLegacy">> ELSE <<>>)
                          \o (IF h.onInbound THEN <<"onInbound">> ELSE <<>>),
                      <<StatusOK>>,
                      (IF h.onLegacy THEN <<s.sms>> ELSE <<>>)
                          \o (IF h.onInbound THEN <<ToInboundMessage(s.sms)>> ELSE <<>>))
        ELSE Response(<<>>, <<StatusOK>>, <<>>)

\* the handler HandleInbound returns, applied to one request; cbErr tells
\* whether the callback, if one is invoked, returns an error
HandleInbound(h, body, cbErr) ==
    LET m == UnmarshalInboundMessage(body)
        s == UnmarshalInboundSMS(body)
    IN  IF body.readErr THEN Response(<<>>, <<StatusOK>>, <<>>)
        ELSE IF ~m.err /\ m.msg.MessageUUID # ""
        THEN IF h.onInbound THEN Response(<<"onInbound">>, <<StatusOK>>, <<m.msg>>)
             ELSE Response(<<>>, <<StatusOK>>, <<>>)
        ELSE IF ~s.err /\ s.sms.MSISDN # ""
        THEN IF h.onLegacy THEN Response(<<"onLegacy">>, <<StatusOK>>, <<s.sms>>)
             ELSE IF h.onInbound
                  THEN Response(<<"onInbound">>, <<StatusOK>>, <<ToInboundMessage(s.sms)>>)
             ELSE Response(<<>>, <<StatusOK>>, <<>>)
        ELSE Response(<<>>, <<StatusOK>>, <<>>)

\* the handler HandleStatus returns, applied to one request
HandleStatus(h, body, cbErr) ==
    LET st == UnmarshalMessageStatus(body)
    IN  IF body.readErr THEN Response(<<>>, <<StatusOK>>, <<>>)
        ELSE IF st.err THEN Response(<<>>, <<StatusOK>>, <<>>)
        ELSE IF h.onStatus THEN Response(<<"onStatus">>, <<StatusOK>>, <<st.status>>)
        ELSE Response(<<>>, <<StatusOK>>, <<>>)

\* the outcome of one webhook-side operation
Handled(op, body, cbErr, invoked, args, written, msg, err) ==
    [op |-> op, body |-> body, cbErr |-> cbErr, invoked |-> invoked, args |-> args,
     written |-> written, msg |-> msg, err |-> err]

NoHook == Handled("none", ZeroBody, FALSE, <<>>, <<>>, <<>>, NilMessage, ErrNil)

HookInit ==
    /\ handler = [onInbound |-> FALSE, onStatus |-> FALSE, onLegacy |-> FALSE]
    /\ hook = NoHook

\* WebhookHandler.OnInbound
OnInbound ==
    /\ ~handler.onInbound
    /\ handler' = [handler EXCEPT !.onInbound = TRUE]
    /\ UNCHANGED <<hook, cacheVars, nccoVars, tokenVars>>

\* WebhookHandler.OnStatus
OnStatus ==
    /\ ~handler.onStatus
    /\ handler' = [handler EXCEPT !.onStatus = TRUE]
    /\ UNCHANGED <<hook, cacheVars, nccoVars, tokenVars>>

\* WebhookHandler.OnLegacySMS
OnLegacySMS ==
    /\ ~handler.onLegacy
    /\ handler' = [handler EXCEPT !.onLegacy = TRUE]
    /\ UNCHANGED <<hook, cacheVars, nccoVars, tokenVars>>

\* one request served by the inbound handler
ServeInbound(body, cbErr) ==
    /\ LET r == HandleInbound(handler, body, cbErr) IN
       hook' = Handled("HandleInbound", body, cbErr /\ r.invoked # <<>>,
                       r.invoked, r.args, r.written, NilMessage, ErrNil)
    /\ UNCHANGED <<handler, cacheVars, nccoVars, tokenVars>>

\* one request served by the status handler
ServeStatus(body, cbErr) ==
    /\ LET r == HandleStatus(handler, body, cbErr) IN
       hook' = Handled("HandleStatus", body, cbErr /\ r.invoked # <<>>,
                       r.invoked, r.args, r.written, NilMessage, ErrNil)
    /\ UNCHANGED <<handler, cacheVars, nccoVars, tokenVars>>

\* one call of ParseInboundMessage (a body that could be read)
Parse(body) ==
    /\ ~body.readErr
    /\ LET r == ParseInboundMessage(body) IN
       hook' = Handled("ParseInboundMessage", body, FALSE, <<>>, <<>>, <<>>, r.msg, r.err)
    /\ UNCHANGED <<handler, cacheVars, nccoVars, tokenVars>>

HookNext ==
    \/ OnInbound
    \/ OnStatus
    \/ OnLegacySMS
    \/ \E body \in Bodies, cbErr \in BOOLEAN : ServeInbound(body, cbErr)
    \/ \E body \in Bodies, cbErr \in BOOLEAN : ServeStatus(body, cbErr)
    \/ \E body \in Bodies : Parse(body)

(***************************************************************************)
(* NCCO builder: the Action struct.                                        *)
(***************************************************************************)
\* the zero Action; a nil *bool or map is "nil"
ZeroAction ==
    [ActionType |-> "", Text |-> "", VoiceName |-> "", Language |-> "", Style |-> 0,
     Premium |-> FALSE, Level |-> 0, BargeIn |-> "nil", Loop |-> 0,
     StreamURL |-> <<>>,
     Type |-> <<>>, EventURL |-> <<>>, EventMethod |-> "", EndOnSilence |-> 0,
     StartTimeout |-> 0, MaxDuration |-> 0,
     MaxDigits |-> 0, SubmitOnHash |-> FALSE, TimeOut |-> 0,
     Payload |-> "nil",
     Format |-> "", BeepStart |-> "nil", EndOnKey |-> "", Channels |-> 0, Split |-> ""]

\* the json key of each field of Action
JSONName ==
    [ActionType |-> "action", Text |-> "text", VoiceName |-> "voiceName",
     Language |-> "language", Style |-> "style", Premium |-> "premium",
     Level |-> "level", BargeIn |-> "bargeIn", Loop |-> "loop",
     StreamURL |-> "streamUrl",
     Type |-> "type", EventURL |-> "eventUrl", EventMethod |-> "eventMethod",
     EndOnSilence |-> "endOnSilence", StartTimeout |-> "startTimeout",
     MaxDuration |-> "maxDuration",
     MaxDigits |-> "maxDigits", SubmitOnHash |-> "submitOnHash", TimeOut |-> "timeOut",
     Payload |-> "payload",
     Format |-> "format", BeepStart |-> "beepStart", EndOnKey |-> "endOnKey",
     Channels |-> "channels", Split |-> "split"]

\* json.Marshal of one Action: "action" is always written; every other field
\* is tagged omitempty and is left out when it holds its zero value (false,
\* 0, "", a nil pointer or map, an empty slice)
MarshalAction(a) ==
    LET written == {f \in DOMAIN a : f = "ActionType" \/ a[f] # ZeroAction[f]}
    IN  [k \in {JSONName[f] : f \in written} |->
            a[CHOOSE f \in written : JSONName[f] = k]]

\* the handles by which the caller holds sub-builders: one at a time
Slots == {1}

NoBuilder == [kind |-> "none", action |-> ZeroAction]

\* a sub-builder: its type and its action field (parent is the one NCCOBuilder)
Builder(kind, action) == [kind |-> kind, action |-> action]

\* an append that does not look for the item
appendAlways(slice, item) == Append(slice, item)

\* appendUnique(slice, item)
appendUnique(slice, item) ==
    IF \E k \in 1..Len(slice) : slice[k] = item THEN slice ELSE Append(slice, item)

\* an append that stores the action twice
AppendActionTwice(acts, a) == acts \o <<a, a>>

\* an append that puts the new action in front
PrependAction(acts, a) == <<a>> \o acts

\* append(parent.actions, action)
AppendAction(acts, a) == Append(acts, a)

\* a finalization that forces the method to POST
InputDefaultsForced(a) == [a EXCEPT !.EventMethod = "POST"]

\* InputBuilder.Done: if i.action.EventMethod == "" { i.action.EventMethod = "POST" }
InputDefaults(a) ==
    IF a.EventMethod = "" THEN [a EXCEPT !.EventMethod = "POST"] ELSE a

NccoInit ==
    /\ actions = <<>>
    /\ sub = [i \in Slots |-> NoBuilder]
    /\ built = [called |-> FALSE, ncco |-> <<>>]
    /\ log = <<>>
    /\ nops = 0

\* a new sub-builder is returned to the caller, who keeps it in slot i
NewBuilder(i, kind, action) ==
    /\ nops < MaxBuilderCalls
    /\ nops' = nops + 1
    /\ sub' = [sub EXCEPT ![i] = Builder(kind, action)]
    /\ UNCHANGED <<actions, built, log, cacheVars, hookVars, tokenVars>>

\* a setter of a sub-builder of the given kind assigns one field of its action
SetField(i, kind, field, value) ==
    /\ sub[i].kind = kind
    /\ nops < MaxBuilderCalls
    /\ nops' = nops + 1
    /\ sub' = [sub EXCEPT ![i].action[field] = value]
    /\ UNCHANGED <<actions, built, log, cacheVars, hookVars, tokenVars>>

\* Done of a talk, stream or record builder
Finalize(i, kind) ==
    /\ sub[i].kind = kind
    /\ nops < MaxBuilderCalls
    /\ nops' = nops + 1
    /\ actions' = AppendAction(actions, sub[i].action)
    /\ log' = Append(log, sub[i].action)
    /\ UNCHANGED <<sub, built, cacheVars, hookVars, tokenVars>>

(***************************************************************************)
(* NCCOBuilder and TalkBuilder                                             *)
(***************************************************************************)
\* NCCOBuilder.Build
Build ==
    /\ built' = [called |-> TRUE, ncco |-> actions]
    /\ UNCHANGED <<actions, sub, log, nops, cacheVars, hookVars, tokenVars>>

\* NCCOBuilder.Talk
Talk(i, text) ==
    NewBuilder(i, "talk", [ZeroAction EXCEPT !.ActionType = "talk", !.Text = text])

TalkVoiceName(i, name) == SetField(i, "talk", "VoiceName", name)
TalkLanguage(i, lang) == SetField(i, "talk", "Language", lang)
TalkStyle(i, style) == SetField(i, "talk", "Style", style)
TalkPremium(i) == SetField(i, "talk", "Premium", TRUE)
TalkLevel(i, level) == SetField(i, "talk", "Level", level)
TalkBargeIn(i) == SetField(i, "talk", "BargeIn", "true")
TalkLoop(i, count) == SetField(i, "talk", "Loop", count)

\* TalkBuilder.Japanese
TalkJapanese(i) ==
    /\ sub[i].kind = "talk"
    /\ nops < MaxBuilderCalls
    /\ nops' = nops + 1
    /\ sub' = [sub EXCEPT ![i].action.VoiceName = "Mizuki",
                          ![i].action.Language = "ja-JP"]
    /\ UNCHANGED <<actions, built, log, cacheVars, hookVars, tokenVars>>

\* TalkBuilder.Done
TalkDone(i) == Finalize(i, "talk")

(***************************************************************************)
(* StreamBuilder                                                           *)
(***************************************************************************)
\* NCCOBuilder.Stream
Stream(i, urls) ==
    NewBuilder(i, "stream", [ZeroAction EXCEPT !.ActionType = "stream", !.StreamURL = urls])

StreamLevel(i, level) == SetField(i, "stream", "Level", level)
StreamBargeIn(i) == SetField(i, "stream", "BargeIn", "true")
StreamLoop(i, count) == SetField(i, "stream", "Loop", count)

\* StreamBuilder.Done
StreamDone(i) == Finalize(i, "stream")

(***************************************************************************)
(* InputBuilder                                                            *)
(***************************************************************************)
\* NCCOBuilder.Input
Input(i) == NewBuilder(i, "input", [ZeroAction EXCEPT !.ActionType = "input"])

\* InputBuilder.Speech
Speech(i) == SetField(i, "input", "Type", appendUnique(sub[i].action.Type, "speech"))
\* InputBuilder.DTMF
DTMF(i) == SetField(i, "input", "Type", appendUnique(sub[i].action.Type, "dtmf"))
\* InputBuilder.SpeechAndDTMF
SpeechAndDTMF(i) == SetField(i, "input", "Type", <<"speech", "dtmf">>)
InputEventURL(i, url) == SetField(i, "input", "EventURL", <<url>>)
InputEventMethod(i, method) == SetField(i, "input", "EventMethod", method)
InputEndOnSilence(i, seconds) == SetField(i, "input", "EndOnSilence", seconds)
InputStartTimeout(i, seconds) == SetField(i, "input", "StartTimeout", seconds)
InputMaxDuration(i, seconds) == SetField(i, "input", "MaxDuration", seconds)
InputMaxDigits(i, digits) == SetField(i, "input", "MaxDigits", digits)
InputSubmitOnHash(i) == SetField(i, "input", "SubmitOnHash", TRUE)
InputTimeOut(i, seconds) == SetField(i, "input", "TimeOut", seconds)

\* InputBuilder.Done: the default is written to the builder's own action,
\* which is then appended
InputDone(i) ==
    /\ sub[i].kind = "input"
    /\ nops < MaxBuilderCalls
    /\ nops' = nops + 1
    /\ sub' = [sub EXCEPT ![i].action = InputDefaults(sub[i].action)]
    /\ actions' = AppendAction(actions, InputDefaults(sub[i].action))
    /\ log' = Append(log, InputDefaults(sub[i].action))
    /\ UNCHANGED <<built, cacheVars, hookVars, tokenVars>>

(***************************************************************************)
(* RecordBuilder and Notify                                                *)
(***************************************************************************)
\* NCCOBuilder.Record
Record(i) == NewBuilder(i, "record", [ZeroAction EXCEPT !.ActionType = "record"])

RecordFormat(i, format) == SetField(i, "record", "Format", format)
RecordEndOnSilence(i, seconds) == SetField(i, "record", "EndOnSilence", seconds)
RecordEndOnKey(i, key) == SetField(i, "record", "EndOnKey", key)
RecordBeepStart(i) == SetField(i, "record", "BeepStart", "true")
RecordEventURL(i, url) == SetField(i, "record", "EventURL", <<url>>)
RecordSplit(i) == SetField(i, "record", "Split", "conversation")
RecordChannels(i, channels) == SetField(i, "record", "Channels", channels)

\* RecordBuilder.Done
RecordDone(i) == Finalize(i, "record")

\* the Action literal of NCCOBuilder.Notify
NotifyAction(eventURL, payload) ==
    [ZeroAction EXCEPT !.ActionType = "notify",
                       !.EventURL = <<eventURL>>,
                       !.EventMethod = "POST",
                       !.Payload = payload]

\* NCCOBuilder.Notify
Notify(eventURL, payload) ==
    /\ nops < MaxBuilderCalls
    /\ nops' = nops + 1
    /\ actions' = AppendAction(actions, NotifyAction(eventURL, payload))
    /\ log' = Append(log, NotifyAction(eventURL, payload))
    /\ UNCHANGED <<sub, built, cacheVars, hookVars, tokenVars>>

\* the calls on the sub-builder held in slot i
SubBuilder(i) ==
    \/ Talk(i, "hi")
    \/ TalkVoiceName(i, "Amy")
    \/ TalkLanguage(i, "ja-JP")
    \/ TalkStyle(i, 1)
    \/ TalkPremium(i)
    \/ TalkLevel(i, 1)
    \/ TalkBargeIn(i)
    \/ \E count \in {0, 2} : TalkLoop(i, count)
    \/ TalkJapanese(i)
    \/ TalkDone(i)
    \/ Stream(i, <<"https://example.com/a.mp3">>)
    \/ StreamLevel(i, 1)
    \/ StreamBargeIn(i)
    \/ StreamLoop(i, 2)
    \/ StreamDone(i)
    \/ Input(i)
    \/ Speech(i)
    \/ DTMF(i)
    \/ SpeechAndDTMF(i)
    \/ InputEventURL(i, "https://example.com/asr")
    \/ \E method \in {"", "GET"} : InputEventMethod(i, method)
    \/ InputEndOnSilence(i, 2)
    \/ InputStartTimeout(i, 5)
    \/ InputMaxDuration(i, 30)
    \/ InputMaxDigits(i, 4)
    \/ InputSubmitOnHash(i)
    \/ InputTimeOut(i, 10)
    \/ InputDone(i)
    \/ Record(i)
    \/ RecordFormat(i, "mp3")
    \/ RecordEndOnSilence(i, 3)
    \/ RecordEndOnKey(i, "#")
    \/ RecordBeepStart(i)
    \/ RecordEventURL(i, "https://example.com/rec")
    \/ RecordSplit(i)
    \/ RecordChannels(i, 2)
    \/ RecordDone(i)

NccoNext ==
    \/ \E i \in Slots : SubBuilder(i)
    \/ Notify("https://example.com/notify", "payload-1")
    \/ Build

(***************************************************************************)
(* Credentials, JWTGenerator and the constructors of the API clients.      *)
(***************************************************************************)
\* ticks of the wall clock per second: time.Time is finer than Unix()
Second == 2

\* the clock stops here
MaxWall == 2

\* no token operation starts once this many uuid.New() calls were made
MaxUUIDs == 2

FiveMinutes == 5 * 60 * Second
TwentyFourHours == 24 * 60 * 60 * Second

\* time.Time.Unix(): whole seconds, rounded down
Unix(t) == t \div Second

\* uuid.New().String() of the n-th call of uuid.New()
UUIDString(n) == "uuid-" \o ToString(n)

ErrNotConfigured == "vonage: credentials not configured"
ErrPrivateKeyMissing == "vonage: private key not configured"
\* errors.New("private key not configured") in GenerateJWT
PrivateKeyNotConfigured == "private key not configured"
\* fmt.Errorf("failed to sign JWT: %w", err)
FailedToSign == "failed to sign JWT"

\* a *rsa.PrivateKey: nil, a usable key, or a key rsa.SignPKCS1v15 rejects
NilKey == "nil"
PrivateKeys == {NilKey, "key", "weak"}

\* the Credentials NewCredentials can return
CredentialSet ==
    { [AppID |-> a, PrivateKey |-> k, PhoneNumber |-> "81501234567"] :
        a \in {"", "app-id-1"}, k \in {NilKey, "key"} }

\* Credentials.HasApplication
HasApplication(c) == c.AppID # "" /\ c.PrivateKey # NilKey

NilGenerator == [nil |-> TRUE]
NilClient == [nil |-> TRUE]

\* NewJWTGenerator
NewJWTGenerator(appID, privateKey) == [appID |-> appID, privateKey |-> privateKey]

JWTGenerators == { NewJWTGenerator("app-id-1", k) : k \in PrivateKeys }

\* the three packages with a NewClientFromCredentials
Packages == {"video", "voice", "messages"}

\* NewClient of a package: the fields the constructors set
NewClient(pkg, appID, jwtGenerator, phoneNumber) ==
    IF pkg = "video"
    THEN [pkg |-> pkg, appID |-> appID, jwtGenerator |-> jwtGenerator, phoneNumber |-> ""]
    ELSE [pkg |-> pkg, appID |-> "", jwtGenerator |-> jwtGenerator, phoneNumber |-> phoneNumber]

\* a constructor that hands out a client whatever the credentials are
NewClientFromCredentialsLax(pkg, creds) ==
    [client |-> NewClient(pkg, creds.AppID,
                          NewJWTGenerator(creds.AppID, creds.PrivateKey),
                          creds.PhoneNumber),
     err |-> ErrNil]

\* NewClientFromCredentials of a package: the (client, err) pair it returns
NewClientFromCredentials(pkg, creds) ==
    IF ~HasApplication(creds) THEN [client |-> NilClient, err |-> ErrNotConfigured]
    ELSE [client |-> NewClient(pkg, creds.AppID,
                               NewJWTGenerator(creds.AppID, creds.PrivateKey),
                               creds.PhoneNumber),
          err |-> ErrNil]

(***************************************************************************)
(* JWTGenerator.GenerateJWT and GenerateAPIJWT                             *)
(***************************************************************************)
\* a nil JWTClaims map
NilClaims == [k \in {} |-> 0]

\* the additional claims a caller passes
ExtraClaims ==
    { NilClaims,
      "sub" :> "user-1",
      "exp" :> 0,
      "iat" :> 1,
      "jti" :> "fixed" }

\* the durations a caller passes, in ticks
TTLs == {0 - Second, 0, 1, Second, Second + 1, FiveMinutes}

\* the signed string, by its first characters and the claims it encodes
EmptyToken == [prefix |-> "", claims |-> NilClaims]
SignedToken(claims) == [prefix |-> "eyJ", claims |-> claims]

\* for k, v := range additionalClaims { claims[k] = v }
MergeClaims(claims, additionalClaims) == additionalClaims @@ claims

\* a generator that derives the jti from the clock instead of uuid.New()
JtiFromClock(t, n) == "uuid-" \o ToString(Unix(t))

\* the "jti" claim: uuid.New().String(), n calls of uuid.New() made before
Jti(t, n) == UUIDString(n + 1)

\* a GenerateJWT that rounds the expiry up to the next minute
GenerateJWTRoundsUp(g, ttl, additionalClaims, t, n) ==
    IF g.privateKey = NilKey
    THEN [token |-> EmptyToken, err |-> PrivateKeyNotConfigured, uuids |-> 0]
    ELSE LET claims == MergeClaims(
                 ("iat" :> Unix(t)) @@ ("exp" :> (Unix(t + ttl) + 60)) @@
                 ("jti" :> Jti(t, n)) @@ ("application_id" :> g.appID),
                 additionalClaims)
         IN  IF g.privateKey = "weak"
             THEN [token |-> EmptyToken, err |-> FailedToSign, uuids |-> 1]
             ELSE [token |-> SignedToken(claims), err |-> ErrNil, uuids |-> 1]

\* GenerateJWT at clock reading t, n calls of uuid.New() made before: the
\* (token, err) pair it returns and the number of uuid.New() calls it made
GenerateJWT(g, ttl, additionalClaims, t, n) ==
    IF g.privateKey = NilKey
    THEN [token |-> EmptyToken, err |-> PrivateKeyNotConfigured, uuids |-> 0]
    ELSE LET claims == MergeClaims(
                 ("iat" :> Unix(t)) @@ ("exp" :> Unix(t + ttl)) @@
                 ("jti" :> Jti(t, n)) @@ ("application_id" :> g.appID),
                 additionalClaims)
         IN  IF g.privateKey = "weak"
             THEN [token |-> EmptyToken, err |-> FailedToSign, uuids |-> 1]
             ELSE [token |-> SignedToken(claims), err |-> ErrNil, uuids |-> 1]

\* GenerateAPIJWT
GenerateAPIJWT(g, t, n) == GenerateJWT(g, FiveMinutes, NilClaims, t, n)

(***************************************************************************)
(* TokenGenerator                                                          *)
(***************************************************************************)
RolePublisher == "publisher"
RoleModerator == "moderator"

\* a time.Time: the zero value, or an instant in ticks
ZeroExpire == [zero |-> TRUE, t |-> 0]
At(t) == [zero |-> FALSE, t |-> t]

\* the TokenOptions a caller passes: the zero value, the options of
\* VonageVideoServiceV2.GenerateToken, those of a TokenBuilder, and an
\* ExpireTime one tick after the epoch
TokenOptionsSet ==
    { [Role |-> "", ExpireTime |-> ZeroExpire, Data |-> "",
       InitialLayoutClassList |-> <<>>],
      [Role |-> RoleModerator, ExpireTime |-> ZeroExpire, Data |-> "user-1",
       InitialLayoutClassList |-> <<>>],
      [Role |-> RolePublisher, ExpireTime |-> At(TwentyFourHours), Data |-> "",
       InitialLayoutClassList |-> <<"full">>],
      [Role |-> "", ExpireTime |-> At(1), Data |-> "",
       InitialLayoutClassList |-> <<>>] }

\* NewTokenGenerator
NewTokenGenerator(appID, jwtGenerator) == [appID |-> appID, jwtGenerator |-> jwtGenerator]

TokenGenerators ==
    { NewTokenGenerator("app-id-1", g) : g \in JWTGenerators \cup {NilGenerator} }

\* a nil *Token
NilToken == [nil |-> TRUE]

\* a mock token without the prefix
MockTokenNoPrefix(mockData) == [prefix |-> "", claims |-> mockData]

\* "mock_" + base64.StdEncoding.EncodeToString(jsonData)
MockTokenString(mockData) == [prefix |-> "mock_", claims |-> mockData]

\* generateMockToken at clock reading t
generateMockToken(g, sessionID, userID, opts, t) ==
    LET expire == IF opts.ExpireTime.zero THEN t + TwentyFourHours ELSE opts.ExpireTime.t
        role == IF opts.Role = "" THEN RolePublisher ELSE opts.Role
        mockData == ("session_id" :> sessionID) @@ ("user_id" :> userID) @@
                    ("role" :> role) @@ ("exp" :> Unix(expire)) @@ ("mock" :> TRUE)
    IN  [token |-> [Token |-> MockTokenString(mockData), SessionID |-> sessionID,
                    APIKey |-> "mock_api_key", ExpiresAt |-> Unix(expire)],
         err |-> ErrNil, uuids |-> 0]

\* GenerateToken with the clock read as t1 (default expiry), t2 (now) and
\* t3 (inside GenerateJWT), n calls of uuid.New() made before
GenerateToken(g, sessionID, userID, opts, t1, t2, t3, n) ==
    IF g.jwtGenerator = NilGenerator
    THEN generateMockToken(g, sessionID, userID, opts, t1)
    ELSE LET role == IF opts.Role = "" THEN RolePublisher ELSE opts.Role
             expire == IF opts.ExpireTime.zero THEN t1 + TwentyFourHours
                       ELSE opts.ExpireTime.t
             base == ("iat" :> Unix(t2)) @@ ("exp" :> Unix(expire)) @@
                     ("jti" :> Jti(t2, n)) @@ ("scope" :> "session.connect") @@
                     ("session_id" :> sessionID) @@ ("role" :> role)
             data == IF opts.Data # "" THEN ("data" :> opts.Data) @@ base ELSE base
             claims == IF Len(opts.InitialLayoutClassList) > 0
                       THEN ("initial_layout_class_list" :> opts.InitialLayoutClassList)
                              @@ data
                       ELSE data
             r == GenerateJWT(g.jwtGenerator, expire - t2, claims, t3, n + 1)
         IN  IF r.err # ErrNil
             THEN [token |-> NilToken, err |-> r.err, uuids |-> 1 + r.uuids]
             ELSE [token |-> [Token |-> r.token, SessionID |-> sessionID,
                              APIKey |-> g.appID, ExpiresAt |-> Unix(expire)],
                   err |-> ErrNil, uuids |-> 1 + r.uuids]

(***************************************************************************)
(* Calls of the token operations and of the constructors.                  *)
(***************************************************************************)
\* a completed call: the operation, its inputs, what it returned and the
\* number of uuid.New() calls it made
Minted(op, in, out, err, n) == [op |-> op, in |-> in, out |-> out, err |-> err, uuids |-> n]

NoMint == Minted("none", NilClaims, NilToken, ErrNil, 0)

TokenInit ==
    /\ wall = 0
    /\ uuids = 0
    /\ minted = <<>>
    /\ mint = NoMint

\* the session ids tokens are asked for
TokenSessionIDs == {RealID(1), MockID(0)}

\* the clock readings a call can make after reading t
LaterReads(t) == {t, IF t < MaxWall THEN t + 1 ELSE t}

\* one call of JWTGenerator.GenerateJWT
CallGenerateJWT(g, ttl, additionalClaims) ==
    /\ uuids < MaxUUIDs
    /\ LET r == GenerateJWT(g, ttl, additionalClaims, wall, uuids) IN
       /\ mint' = Minted("GenerateJWT",
                         [g |-> g, ttl |-> ttl, additionalClaims |-> additionalClaims],
                         r.token, r.err, r.uuids)
       /\ uuids' = uuids + r.uuids
       /\ minted' = IF r.err = ErrNil THEN Append(minted, r.token.claims["jti"])
                    ELSE minted
    /\ UNCHANGED <<wall, cacheVars, hookVars, nccoVars>>

\* one call of JWTGenerator.GenerateAPIJWT
CallGenerateAPIJWT(g) ==
    /\ uuids < MaxUUIDs
    /\ LET r == GenerateAPIJWT(g, wall, uuids) IN
       /\ mint' = Minted("GenerateAPIJWT", [g |-> g], r.token, r.err, r.uuids)
       /\ uuids' = uuids + r.uuids
       /\ minted' = IF r.err = ErrNil THEN Append(minted, r.token.claims["jti"])
                    ELSE minted
    /\ UNCHANGED <<wall, cacheVars, hookVars, nccoVars>>

\* one call of TokenGenerator.GenerateToken
CallGenerateToken(g, sessionID, opts) ==
    /\ uuids < MaxUUIDs
    /\ \E t2 \in LaterReads(wall) : \E t3 \in LaterReads(t2) :
         LET mock == g.jwtGenerator = NilGenerator
             r == GenerateToken(g, sessionID, "user-1", opts, wall, t2, t3, uuids)
         IN
         /\ mint' = Minted("GenerateToken", [g |-> g, opts |-> opts], r.token, r.err,
                           r.uuids)
         /\ uuids' = uuids + r.uuids
         /\ minted' = IF r.err = ErrNil /\ ~mock
                      THEN Append(minted, r.token.Token.claims["jti"])
                      ELSE minted
         /\ wall' = IF mock THEN wall ELSE IF r.uuids = 2 THEN t3 ELSE t2
    /\ UNCHANGED <<cacheVars, hookVars, nccoVars>>

\* one call of a package's NewClientFromCredentials
CallNewClientFromCredentials(pkg, creds) ==
    /\ LET r == NewClientFromCredentials(pkg, creds) IN
       mint' = Minted("NewClientFromCredentials", [pkg |-> pkg, creds |-> creds],
                      r.client, r.err, 0)
    /\ UNCHANGED <<wall, uuids, minted, cacheVars, hookVars, nccoVars>>

\* one call of a package's NewClient with a generator of the caller's
CallNewClient(pkg, jwtGenerator) ==
    /\ mint' = Minted("NewClient", [pkg |-> pkg, jwtGenerator |-> jwtGenerator],
                      NewClient(pkg, "app-id-1", jwtGenerator, ""), ErrNil, 0)
    /\ UNCHANGED <<wall, uuids, minted, cacheVars, hookVars, nccoVars>>

\* time passes
TokenTick ==
    /\ wall < MaxWall
    /\ wall' = wall + 1
    /\ UNCHANGED <<uuids, minted, mint, cacheVars, hookVars, nccoVars>>

TokenNext ==
    \/ \E g \in JWTGenerators, ttl \in TTLs, c \in ExtraClaims : CallGenerateJWT(g, ttl, c)
    \/ \E g \in JWTGenerators : CallGenerateAPIJWT(g)
    \/ \E g \in TokenGenerators, id \in TokenSessionIDs, opts \in TokenOptionsSet :
         CallGenerateToken(g, id, opts)
    \/ \E pkg \in Packages, creds \in CredentialSet : CallNewClientFromCredentials(pkg, creds)
    \/ \E pkg \in Packages, g \in JWTGenerators \cup {NilGenerator} : CallNewClient(pkg, g)
    \/ TokenTick

(***************************************************************************)
(* VonageVideoServiceV2: a video client and the token generator built      *)
(* from the same credentials.                                              *)
(***************************************************************************)
\* the token generator NewVonageVideoServiceV2 pairs with the client
ServiceTokenGenerator(c) ==
    NewTokenGenerator(c.appID,
        IF c.jwtGenerator = "nil" THEN NilGenerator
        ELSE NewJWTGenerator(c.appID, IF c.jwtGenerator = "key" THEN "key" ELSE NilKey))

\* VonageVideoServiceV2.GenerateToken for a cached session
ServiceGenerateToken(sessionID, role) ==
    LET tokenRole == IF role \in {"publisher", "subscriber", "moderator"} THEN role
                     ELSE RolePublisher
    IN  CallGenerateToken(ServiceTokenGenerator(client), sessionID,
                          [Role |-> tokenRole, ExpireTime |-> ZeroExpire,
                           Data |-> "user-1", InitialLayoutClassList |-> <<>>])

(***************************************************************************)
(* Specifications.                                                         *)
(***************************************************************************)
Init == CacheInit(Clients) /\ HookInit /\ NccoInit /\ TokenInit

\* the start of the specifications that leave the session cache alone
QuietInit ==
    /\ CacheInit({[appID |-> "app-id-1", jwtGenerator |-> "key"]})
    /\ HookInit
    /\ NccoInit
    /\ TokenInit

Creator(p) ==
    \/ CreateSession(p)
    \/ \E spotID \in Spots : CreateSessionForSpot(p, spotID)
    \/ \E spotID \in Spots : GetOrCreateSession(p, spotID)
    \/ GocScan(p)
    \/ Relock(p)
    \/ CsfsScan(p)
    \/ ApiCall(p)
    \/ Insert(p)
    \/ MockMake(p)
    \/ MockInsert(p)

\* the calls that only read the cache
Queries ==
    \/ \E sessionID \in SessionIDs : GetSession(sessionID)
    \/ CachedSessionCount

\* concurrent creators, the sweep and the clock
Next ==
    \/ \E p \in Procs : Creator(p)
    \/ CleanupExpiredSessions
    \/ Tick

Spec == Init /\ [][Next]_vars

\* one caller at a time: SeqProc makes all the calls
SeqNext ==
    \/ Creator(SeqProc)
    \/ CleanupExpiredSessions
    \/ Queries
    \/ Tick

SeqSpec == Init /\ [][SeqNext]_vars

\* the webhook handler and the decoder
HookSpec == QuietInit /\ [][HookNext]_vars

\* one caller driving one NCCOBuilder
NccoSpec == QuietInit /\ [][NccoNext]_vars

\* one caller driving InputBuilders only
InputNext ==
    \/ \E i \in Slots :
         \/ Input(i)
         \/ Speech(i)
         \/ DTMF(i)
         \/ SpeechAndDTMF(i)
         \/ InputEventURL(i, "https://example.com/asr")
         \/ \E method \in {"", "GET"} : InputEventMethod(i, method)
         \/ InputEndOnSilence(i, 2)
         \/ InputStartTimeout(i, 5)
         \/ InputMaxDuration(i, 30)
         \/ InputMaxDigits(i, 4)
         \/ InputSubmitOnHash(i)
         \/ InputTimeOut(i, 10)
         \/ InputDone(i)
    \/ Build

InputSpec == QuietInit /\ [][InputNext]_vars

\* token minting and the constructors
TokenSpec == QuietInit /\ [][TokenNext]_vars

\* the video service: one caller creating sessions and asking tokens for them
ServiceNext ==
    \/ Creator(SeqProc)
    \/ \E sessionID \in DOMAIN sessions, role \in {"moderator", ""} :
         ServiceGenerateToken(sessionID, role)

ServiceSpec == Init /\ [][ServiceNext]_vars

\* two goroutines have both entered CreateSessionForSpot for the same unseen
\* spot and hold the read lock, on a configured client with an empty cache
RaceSpot == "spot-A"

RaceInit ==
    /\ client = [appID |-> "app-id-1", jwtGenerator |-> "key"]
    /\ sessions = EmptyMap
    /\ readers = Procs
    /\ now = 0
    /\ nextId = 1
    /\ ncalls = 0
    /\ pc = [p \in Procs |-> "scan"]
    /\ call = [p \in Procs |-> [NoCall EXCEPT !.op = "CreateSessionForSpot",
                                               !.spotID = RaceSpot]]
    /\ ret = NoRet
    /\ HookInit
    /\ NccoInit
    /\ TokenInit

\* the racing calls run on; SeqProc makes the later lookups
RaceNext ==
    \/ \E p \in Procs :
         CsfsScan(p) \/ ApiCall(p) \/ Insert(p) \/ MockMake(p) \/ MockInsert(p)
    \/ CreateSessionForSpot(SeqProc, RaceSpot)
    \/ GetOrCreateSession(SeqProc, RaceSpot)
    \/ GocScan(SeqProc)
    \/ Relock(SeqProc)
    \/ \E sessionID \in SessionIDs : GetSession(sessionID)
    \/ CleanupExpiredSessions
    \/ Tick

RaceSpec == RaceInit /\ [][RaceNext]_vars

(***************************************************************************)
(* Properties of the session cache.                                        *)
(***************************************************************************)
SpotOps == {"CreateSessionForSpot", "GetOrCreateSession"}

\* goroutine p's creation call returns in this step
Returns(p) == pc[p] # "idle" /\ pc'[p] = "idle"

\* C1: two consecutive CreateSessionForSpot / GetOrCreateSession calls for
\* the same spotID, the first of which created its session remotely without
\* error and whose record has not expired, return the same SessionID, and
\* the second call makes no remote creation call.
C1_SecondCallServedFromCache ==
    [][ ( /\ Returns(SeqProc)
          /\ ret.op \in SpotOps
          /\ ret.api = "ok"
          /\ ret'.op \in SpotOps
          /\ ret'.arg = ret.arg
          /\ ~IsExpired(ret.session, now') )
        => ( /\ ret'.session.SessionID = ret.session.SessionID
             /\ ret'.api = "none" ) ]_vars

\* C2: every creation call returns a nil error and a non-nil record; when
\* the client is unconfigured or the remote creation failed, the record has
\* IsMock = TRUE and is stored in the cache under its SessionID.
C2_FallbackNeverFails ==
    [][ \A p \in Procs :
          Returns(p) =>
            /\ ret'.err = ErrNil
            /\ ret'.session # NilSession
            /\ (~IsConfigured(client) \/ call[p].api = "failed") =>
                  /\ ret'.session.IsMock
                  /\ ret'.session.SessionID \in DOMAIN sessions'
                  /\ sessions'[ret'.session.SessionID] = ret'.session ]_vars

\* a call whose remote creation failed has returned its fallback record
C2_Witness ==
    /\ ret.op \in {"CreateSession", "CreateSessionForSpot"}
    /\ ret.api = "failed"
    /\ ret.session # NilSession
    /\ ret.session.IsMock
    /\ ret.session.SessionID \in DOMAIN sessions

\* C3: the cache never holds two valid records for one spotID.
C3_AtMostOneValidPerSpot ==
    \A spotID \in Spots : Cardinality(ScanHits(sessions, spotID, now)) <= 1

\* C4: GetSession(id) returns ErrSessionNotFound iff no record is stored
\* under id, ErrSessionExpired iff one is stored and now is after its
\* ExpiresAt, otherwise the stored record and a nil error; never a record
\* together with an error.
C4_GetSessionOutcomes ==
    [][ (ret'.op = "GetSession" /\ GetSession(ret'.arg)) =>
          LET id == ret'.arg IN
            /\ ret'.err = ErrSessionNotFound <=> id \notin DOMAIN sessions
            /\ ret'.err = ErrSessionExpired <=>
                  (id \in DOMAIN sessions /\ now > sessions[id].ExpiresAt)
            /\ ret'.err \notin {ErrSessionNotFound, ErrSessionExpired} =>
                  (ret'.err = ErrNil /\ ret'.session = sessions[id])
            /\ ret'.err # ErrNil => ret'.session = NilSession ]_vars

\* GetSession has reported an expired record that is still in the map
C4_Witness ==
    /\ ret.op = "GetSession"
    /\ ret.err = ErrSessionExpired
    /\ ret.arg \in DOMAIN sessions

ModernAccepts(body) ==
    body.syntax = "object" /\ body.modernTypes /\ body.message_uuid # ""

\* the legacy format's check: the structural parse succeeds and msisdn is
\* non-empty
LegacyAccepts(body) ==
    body.syntax = "object" /\ body.legacyTypes /\ body.msisdn # ""

\* C6: every request handled by HandleInbound or HandleStatus gets exactly
\* one WriteHeader call, with status 200, whatever the body, the registered
\* callbacks and the callback's result.
C6_AlwaysAnswers200Once ==
    hook.op \in {"HandleInbound", "HandleStatus"} => hook.written = <<StatusOK>>

\* a request whose callback returned an error has been answered
C6_Witness ==
    /\ hook.op = "HandleInbound"
    /\ hook.invoked # <<>>
    /\ hook.cbErr
    /\ hook.written = <<StatusOK>>

\* C7: ParseInboundMessage returns the modern decoding when the modern
\* check passes; otherwise the converted legacy payload when the legacy
\* check passes; otherwise an error and no message. It never returns a
\* message together with an error.
C7_FixedOrderDecode ==
    hook.op = "ParseInboundMessage" =>
        /\ IF ModernAccepts(hook.body)
           THEN /\ hook.err = ErrNil
                /\ hook.msg # NilMessage
                /\ hook.msg.MessageUUID = hook.body.message_uuid
                /\ hook.msg.From = hook.body.from
                /\ hook.msg.Channel = hook.body.channel
           ELSE IF LegacyAccepts(hook.body)
           THEN /\ hook.err = ErrNil
                /\ hook.msg # NilMessage
                /\ hook.msg.MessageUUID = hook.body.messageId
                /\ hook.msg.From = hook.body.msisdn
                /\ hook.msg.Channel = ChannelSMS
           ELSE /\ hook.err # ErrNil
                /\ hook.msg = NilMessage
        /\ hook.msg = NilMessage <=> hook.err # ErrNil

\* a payload rejected by the modern check only for its missing message_uuid
\* has been decoded as legacy
C7_Witness ==
    /\ hook.op = "ParseInboundMessage"
    /\ hook.body.modernTypes
    /\ hook.body.message_uuid = ""
    /\ LegacyAccepts(hook.body)
    /\ hook.err = ErrNil
    /\ hook.msg.Channel = ChannelSMS

\* C8 as stated: a payload that passes both checks, like one that passes
\* neither, makes ParseInboundMessage return an error.
C8_BothOrNeitherIsError ==
    ( /\ hook.op = "ParseInboundMessage"
      /\ ModernAccepts(hook.body) = LegacyAccepts(hook.body) )
    => (hook.err # ErrNil /\ hook.msg = NilMessage)

\* C8 amended: a payload that passes both checks is decoded as the modern
\* format, without error; only a payload that passes neither is an error.
C8_BothDecodesAsModern ==
    hook.op = "ParseInboundMessage" =>
        /\ (ModernAccepts(hook.body) /\ LegacyAccepts(hook.body)) =>
              /\ hook.err = ErrNil
              /\ hook.msg # NilMessage
              /\ hook.msg.MessageUUID = hook.body.message_uuid
              /\ hook.msg.Channel = hook.body.channel
        /\ (~ModernAccepts(hook.body) /\ ~LegacyAccepts(hook.body)) =>
              (hook.err # ErrNil /\ hook.msg = NilMessage)

\* a payload that passes both checks has been decoded
C8_Witness ==
    /\ hook.op = "ParseInboundMessage"
    /\ ModernAccepts(hook.body)
    /\ LegacyAccepts(hook.body)
    /\ hook.body.messageId # ""
    /\ hook.err = ErrNil

(***************************************************************************)
(* Properties of the NCCO builder.                                         *)
(***************************************************************************)
\* C9: the builder's sequence only grows at its end, by one action per
\* finalization (Done or Notify), so it always lists the finalized actions
\* in the order of their finalization, and Build returns that sequence.
C9_BuildKeepsFinalizationOrder ==
    [][ /\ Len(actions') \in {Len(actions), Len(actions) + 1}
        /\ SubSeq(actions', 1, Len(actions)) = actions
        /\ actions' = log'
        /\ Build => built'.ncco = log ]_vars

\* Build has returned a notify action followed by a Done-finalized action
C9_Witness ==
    /\ built.called
    /\ Len(built.ncco) >= 2
    /\ built.ncco[1].ActionType = "notify"
    /\ built.ncco[2].ActionType = "talk"
    /\ built.ncco = actions

\* C10: InputBuilder.Done appends the builder's action with eventMethod
\* "POST" if it was empty and unchanged otherwise, all other fields as the
\* caller set them; Done of a talk, stream or record builder appends the
\* builder's action as it is.
C10_InputMethodDefaultsToPost ==
    [][ \A i \in Slots :
          /\ InputDone(i) =>
                LET a == sub[i].action
                    out == actions'[Len(actions')]
                IN  /\ Len(actions') = Len(actions) + 1
                    /\ out.EventMethod = "POST" <=> a.EventMethod \in {"", "POST"}
                    /\ a.EventMethod # "" => out.EventMethod = a.EventMethod
                    /\ \A f \in (DOMAIN a) \ {"EventMethod"} : out[f] = a[f]
          /\ (TalkDone(i) \/ StreamDone(i) \/ RecordDone(i)) =>
                /\ Len(actions') = Len(actions) + 1
                /\ actions'[Len(actions')] = sub[i].action ]_vars

\* Talk("hi").Language("ja-JP").Done().Input().Speech().Done().Build()
C10_Witness ==
    /\ built.called
    /\ built.ncco =
         << [ZeroAction EXCEPT !.ActionType = "talk", !.Text = "hi",
                               !.Language = "ja-JP"],
            [ZeroAction EXCEPT !.ActionType = "input", !.Type = <<"speech">>,
                               !.EventMethod = "POST"] >>

(***************************************************************************)
(* Properties of token minting and of the constructors.                    *)
(***************************************************************************)
JwtOps == {"GenerateJWT", "GenerateAPIJWT", "GenerateToken"}

\* the last call signed a JWT
SignedMint ==
    /\ mint.op \in JwtOps
    /\ mint.err = ErrNil
    /\ mint.op = "GenerateToken" => mint.in.g.jwtGenerator # NilGenerator

\* the claims of the JWT the last call signed
MintedClaims ==
    IF mint.op = "GenerateToken" THEN mint.out.Token.claims ELSE mint.out.claims

\* exp is iat plus ttl, in whole seconds, within one second
ExpIsIatPlusTtl ==
    LET d == (MintedClaims["exp"] - MintedClaims["iat"]) * Second - mint.in.ttl
    IN  d < Second /\ 0 - d < Second

\* C11 as stated: for every ttl > 0 and every additional-claims map, the
\* token GenerateJWT signs has exp = iat + ttl within one second.
C11_ExpIsIatPlusTtl ==
    (mint.op = "GenerateJWT" /\ mint.err = ErrNil /\ mint.in.ttl > 0) => ExpIsIatPlusTtl

\* C11 amended: for every ttl > 0 and every additional-claims map that has
\* no "iat" and no "exp" entry, the token GenerateJWT signs has
\* exp = iat + ttl within one second.
C11_ExpIsIatPlusTtlUnlessOverwritten ==
    ( /\ mint.op = "GenerateJWT" /\ mint.err = ErrNil /\ mint.in.ttl > 0
      /\ {"iat", "exp"} \cap DOMAIN mint.in.additionalClaims = {} )
    => ExpIsIatPlusTtl

\* a token signed for a ttl that is not a whole number of seconds, with
\* additional claims
C11_Witness ==
    /\ mint.op = "GenerateJWT"
    /\ mint.err = ErrNil
    /\ mint.in.ttl > Second
    /\ mint.in.ttl % Second # 0
    /\ DOMAIN mint.in.additionalClaims = {"sub"}
    /\ MintedClaims["sub"] = "user-1"
    /\ MintedClaims["exp"] > MintedClaims["iat"]

\* C12: every token signed by GenerateJWT, GenerateAPIJWT or GenerateToken
\* has exp strictly greater than iat, whatever ttl or ExpireTime was passed.
C12_ExpiresAfterIssued ==
    SignedMint => MintedClaims["exp"] > MintedClaims["iat"]

\* C13 as stated: the jti of a signed token differs from the jti of every
\* other signed token, for any additional-claims map.
C13_JtiDiffersOnEveryMint ==
    \A i, j \in 1..Len(minted) : i # j => minted[i] # minted[j]

\* C13 amended: the jti of a token signed by GenerateAPIJWT, by
\* GenerateToken, or by GenerateJWT with an additional-claims map that has
\* no "jti" entry, differs from the jti of every token signed before it,
\* also for identical inputs within the same second.
C13_GeneratedJtiIsFresh ==
    [][ ( /\ Len(minted') = Len(minted) + 1
          /\ mint'.op = "GenerateJWT" => "jti" \notin DOMAIN mint'.in.additionalClaims )
        => \A i \in 1..Len(minted) : minted[i] # minted'[Len(minted')] ]_vars

\* two tokens signed at the same clock reading, the second by GenerateAPIJWT
C13_Witness ==
    /\ mint.op = "GenerateAPIJWT"
    /\ mint.err = ErrNil
    /\ wall = 0
    /\ Len(minted) = 2
    /\ minted[1] # minted[2]

\* C14: on a generator without private key, GenerateJWT and GenerateAPIJWT
\* return the sentinel ErrPrivateKeyMissing and an empty token, before any
\* claim is built.
C14_MissingKeyIsSentinel ==
    ( /\ mint.op \in {"GenerateJWT", "GenerateAPIJWT"}
      /\ mint.in.g.privateKey = NilKey )
    => ( /\ mint.err = ErrPrivateKeyMissing
         /\ mint.out = EmptyToken
         /\ mint.uuids = 0 )

\* the outcome of NewClientFromCredentials is decided by HasApplication
FromCredentialsChecked ==
    mint.op = "NewClientFromCredentials" =>
        /\ ~HasApplication(mint.in.creds) <=>
              (mint.out = NilClient /\ mint.err = ErrNotConfigured)
        /\ HasApplication(mint.in.creds) => (mint.out # NilClient /\ mint.err = ErrNil)

\* the client the last constructor call returned can mint only with an
\* application id and a private key
ClientHasApplication ==
    (mint.out # NilClient /\ mint.out.jwtGenerator # NilGenerator) =>
        /\ mint.out.jwtGenerator.appID # ""
        /\ mint.out.jwtGenerator.privateKey # NilKey

\* C15 as stated: NewClientFromCredentials returns (nil, ErrNotConfigured)
\* iff the credentials lack the application id or the private key, and no
\* client that can attempt token minting exists without both.
C15_NoClientWithoutApplication ==
    /\ FromCredentialsChecked
    /\ mint.op \in {"NewClient", "NewClientFromCredentials"} => ClientHasApplication

\* C15 amended: NewClientFromCredentials returns (nil, ErrNotConfigured)
\* iff the credentials lack the application id or the private key, and
\* every client it returns has both; NewClient checks nothing.
C15_FromCredentialsNeedsApplication ==
    /\ FromCredentialsChecked
    /\ mint.op = "NewClientFromCredentials" => ClientHasApplication

\* credentials with an application id but no key have been refused
C15_Witness ==
    /\ mint.op = "NewClientFromCredentials"
    /\ mint.in.pkg = "voice"
    /\ mint.in.creds.AppID # ""
    /\ mint.in.creds.PrivateKey = NilKey
    /\ mint.out = NilClient
    /\ mint.err = ErrNotConfigured

(***************************************************************************)
(* Properties of mock sessions and mock tokens.                            *)
(***************************************************************************)
\* C16: every cached or returned session with IsMock = true has a
\* SessionID that begins with "mock_", and every token of a TokenGenerator
\* without JWT generator is returned without error and begins with "mock_".
C16_MockArtifactsCarryPrefix ==
    /\ \A id \in DOMAIN sessions :
         sessions[id].IsMock => sessions[id].SessionID.kind = "mock_"
    /\ (ret.session # NilSession /\ ret.session.IsMock)
          => ret.session.SessionID.kind = "mock_"
    /\ (mint.op = "GenerateToken" /\ mint.in.g.jwtGenerator = NilGenerator)
          => (mint.err = ErrNil /\ mint.out.Token.prefix = "mock_")

\* a mock token has been produced for a cached mock session
C16_Witness ==
    /\ mint.op = "GenerateToken"
    /\ mint.in.g.jwtGenerator = NilGenerator
    /\ mint.out.Token.prefix = "mock_"
    /\ mint.out.SessionID \in DOMAIN sessions
    /\ sessions[mint.out.SessionID].IsMock
    /\ ret.session # NilSession
    /\ ret.session.IsMock

\* the records a step puts into the map or replaces there
Written == {id \in DOMAIN sessions' : id \notin DOMAIN sessions \/ sessions'[id] # sessions[id]}

\* some goroutine completes createMockSession in this step
MockInserts(p) == pc[p] = "mock_insert" /\ pc'[p] = "idle"

\* some goroutine inserts the record of a successful remote creation
RealInserts(p) == pc[p] = "insert" /\ pc'[p] = "idle" /\ call[p].api = "ok"

\* C17 as stated: a record has IsMock = true only if a remote creation was
\* attempted for it and failed, and every record of a successful remote
\* creation has IsMock = false.
C17_MockOnlyAfterFailedAttempt ==
    [][ \A id \in Written :
          /\ sessions'[id].IsMock =>
                \E p \in Procs : MockInserts(p) /\ call[p].api = "failed"
          /\ (\E p \in Procs : RealInserts(p)) => ~sessions'[id].IsMock ]_vars

\* C17 amended: a record has IsMock = true only if the client was not
\* configured or a remote creation was attempted for it and failed, and
\* every record of a successful remote creation has IsMock = false.
C17_MockOnlyFromFallback ==
    [][ \A id \in Written :
          /\ sessions'[id].IsMock =>
                \E p \in Procs :
                    /\ MockInserts(p)
                    /\ call[p].api = "failed" \/ ~IsConfigured(client)
          /\ ~sessions'[id].IsMock => \E p \in Procs : RealInserts(p) ]_vars

\* both kinds of record are cached: a mock one after a failed attempt and
\* one of a successful remote creation
C17_Witness ==
    /\ IsConfigured(client)
    /\ ret.api = "failed"
    /\ ret.session.IsMock
    /\ \E id \in DOMAIN sessions : ~sessions[id].IsMock

\* C18: after two racing inserts for one spot, a later CreateSessionForSpot
\* or GetOrCreateSession for that spot, made while both records are
\* unexpired, returns the record inserted last and never the earlier one.
C18_LaterInsertWinsLookup ==
    [][ ( /\ ret.op \in SpotOps
          /\ ret.api \in {"ok", "failed"}
          /\ Cardinality(ScanHits(sessions, ret.arg, now)) = 2
          /\ \E p \in Procs : Returns(p)
          /\ ret'.op \in SpotOps
          /\ ret'.arg = ret.arg
          /\ ret'.api = "none" )
        => ret'.session = ret.session ]_vars

\* C19: when two CreateSessionForSpot calls for one unseen spot both miss,
\* both create and both insert, neither insert removes or changes the record
\* stored under another id, and GetSession returns every unexpired record
\* under its own SessionID.
C19_RacedRecordsStayRetrievable ==
    [][ /\ (\E p \in Procs : MockInserts(p) \/ (pc[p] = "insert" /\ pc'[p] = "idle")) =>
              \A id \in DOMAIN sessions :
                  /\ id \in DOMAIN sessions'
                  /\ id \notin Written
                     \/ \E p \in Procs : Returns(p) /\ call[p].session.SessionID = id
        /\ ( /\ ret'.op = "GetSession"
             /\ ret' # ret
             /\ ret'.arg \in DOMAIN sessions
             /\ ~IsExpired(sessions[ret'.arg], now) ) =>
              /\ ret'.err = ErrNil
              /\ ret'.session = sessions[ret'.arg] ]_vars

\* both racing calls have inserted, under distinct ids, and GetSession has
\* returned the record that was inserted first
C19_Witness ==
    /\ Cardinality(ScanHits(sessions, RaceSpot, now)) = 2
    /\ ret.op = "GetSession"
    /\ ret.err = ErrNil
    /\ ret.session.SpotID = RaceSpot
    /\ \E id \in ScanHits(sessions, RaceSpot, now) :
          id # ret.arg /\ sessions[id].CreatedAt > ret.session.CreatedAt

\* C20: a goroutine holds the read lock only while it scans the map: not
\* during its remote creation call, not while it builds or inserts a record
\* (the write lock is taken for the insert alone), and not after it returned.
C20_NoLockAcrossRemoteCall ==
    \A p \in Procs : p \in readers => pc[p] \in {"scan", "goc_scan"}

\* one goroutine's remote call is pending while the other has finished a
\* creation of its own, insert included
C20_Witness ==
    \E p \in Procs :
        /\ pc[p] = "api"
        /\ call[p].op = "CreateSessionForSpot"
        /\ ret.proc # p
        /\ ret.api = "ok"
        /\ ret.session.SessionID \in DOMAIN sessions

\* C21: every createMockSession stores its record under an id that no cached
\* record has yet, so no mock record overwrites another and the number of
\* cached sessions grows by one with each fallback creation, also for two
\* creations within the same clock reading.
C21_MockIdsAreDistinct ==
    [][ (\E p \in Procs : MockInserts(p)) =>
          /\ \A p \in Procs :
                MockInserts(p) => call[p].session.SessionID \notin DOMAIN sessions
          /\ MapLen(sessions') = MapLen(sessions) + 1 ]_vars

\* the instant a legacy message-timestamp string denotes
TimeOf(timestamp) ==
    IF timestamp = "2024-01-01 12:00:00" THEN "2024-01-01T12:00:00Z" ELSE ZeroTime

\* C22: the canonical message decoded from an accepted legacy payload carries
\* every value of the legacy format: messageId as MessageUUID, msisdn as From,
\* to as To, text as Text and message-timestamp as Timestamp, with Channel
\* sms, MessageType text and no media.
C22_LegacyConversionIsLossless ==
    ( /\ hook.op = "ParseInboundMessage"
      /\ hook.err = ErrNil
      /\ ~ModernAccepts(hook.body) ) =>
        /\ hook.msg.MessageUUID = hook.body.messageId
        /\ hook.msg.From = hook.body.msisdn
        /\ hook.msg.To = hook.body.to
        /\ hook.msg.Text = hook.body.text
        /\ hook.msg.Timestamp = TimeOf(hook.body.message_timestamp)
        /\ hook.msg.Channel = ChannelSMS
        /\ hook.msg.MessageType = "text"
        /\ hook.msg.Image = "nil"

\* C25: HandleInbound invokes at most one callback per request and sorts
\* payloads as ParseInboundMessage does: a modern payload goes to onInbound
\* only, a legacy one to onLegacy if registered and otherwise to onInbound
\* with the converted message, an unrecognized one to no callback; an error
\* returned by the callback changes neither the callbacks run nor the answer.
C25_AtMostOneCallbackAsParsed ==
    [][ (hook'.op = "HandleInbound" /\ hook' # hook /\ handler' = handler) =>
          LET body == hook'.body
              parsed == ParseInboundMessage(body)
              sms == UnmarshalInboundSMS(body).sms
          IN
          /\ Len(hook'.invoked) <= 1
          /\ Len(hook'.args) = Len(hook'.invoked)
          /\ hook'.written = <<StatusOK>>
          /\ (body.readErr \/ parsed.err # ErrNil) => hook'.invoked = <<>>
          /\ (~body.readErr /\ parsed.err = ErrNil /\ ModernAccepts(body)) =>
                IF handler.onInbound
                THEN hook'.invoked = <<"onInbound">> /\ hook'.args = <<parsed.msg>>
                ELSE hook'.invoked = <<>>
          /\ (~body.readErr /\ parsed.err = ErrNil /\ ~ModernAccepts(body)) =>
                IF handler.onLegacy
                THEN hook'.invoked = <<"onLegacy">> /\ hook'.args = <<sms>>
                ELSE IF handler.onInbound
                THEN hook'.invoked = <<"onInbound">> /\ hook'.args = <<parsed.msg>>
                ELSE hook'.invoked = <<>> ]_vars

\* a legacy payload went to onInbound as a converted message, the callback
\* returned an error, and onLegacy was registered only afterwards
C25_Witness ==
    /\ hook.op = "HandleInbound"
    /\ ~ModernAccepts(hook.body)
    /\ hook.invoked = <<"onInbound">>
    /\ hook.args[1].Channel = ChannelSMS
    /\ hook.args[1].From = hook.body.msisdn
    /\ hook.cbErr
    /\ handler.onLegacy

\* the JSON of action a has the key with the value
Emits(a, key, value) ==
    key \in DOMAIN MarshalAction(a) /\ MarshalAction(a)[key] = value

\* C23: after a setter call with value v the JSON of the sub-builder's action
\* has that field with value v, Loop(0) included, and the JSON of an action
\* has no field the caller never set.
C23_FieldPresentIffSet ==
    [][ \A i \in Slots :
          /\ \A count \in {0, 2} :
                TalkLoop(i, count) => Emits(sub'[i].action, "loop", count)
          /\ TalkLevel(i, 1) => Emits(sub'[i].action, "level", 1)
          /\ TalkStyle(i, 1) => Emits(sub'[i].action, "style", 1)
          /\ TalkPremium(i) => Emits(sub'[i].action, "premium", TRUE)
          /\ StreamLoop(i, 2) => Emits(sub'[i].action, "loop", 2)
          /\ InputEndOnSilence(i, 2) => Emits(sub'[i].action, "endOnSilence", 2)
          /\ InputMaxDigits(i, 4) => Emits(sub'[i].action, "maxDigits", 4)
          /\ RecordChannels(i, 2) => Emits(sub'[i].action, "channels", 2)
          /\ Talk(i, "hi") => DOMAIN MarshalAction(sub'[i].action) = {"action", "text"}
          /\ Input(i) => DOMAIN MarshalAction(sub'[i].action) = {"action"}
          /\ Record(i) => DOMAIN MarshalAction(sub'[i].action) = {"action"} ]_vars

\* the step appends one action to the parent's list and keeps the others
AppendsOne ==
    /\ Len(actions') = Len(actions) + 1
    /\ SubSeq(actions', 1, Len(actions)) = actions

\* C24: every step leaves the parent's actions as they are or appends exactly
\* one; an appended action is Notify's or the snapshot of a sub-builder's
\* fields at its Done (with InputBuilder's default method); setters and new
\* sub-builders append nothing and change no appended action, and Build
\* returns the appended actions only.
C24_DoneAppendsOneSnapshot ==
    [][ /\ actions' = actions \/ AppendsOne
        /\ AppendsOne =>
              LET out == actions'[Len(actions')] IN
              \/ out.ActionType = "notify" /\ sub' = sub
              \/ \E i \in Slots :
                    /\ sub[i].kind # "none"
                    /\ out = IF sub[i].kind = "input" THEN InputDefaults(sub[i].action)
                             ELSE sub[i].action
                    /\ sub'[i].action = out
        /\ \A i \in Slots :
              (sub'[i] # sub[i] /\ sub'[i].action # InputDefaults(sub[i].action)) =>
                  actions' = actions
        /\ built' # built => built'.ncco = actions /\ actions' = actions ]_vars

\* a talk action was appended by Done, its sub-builder was changed afterwards,
\* and Build returned the action as appended
C24_Witness ==
    /\ built.called
    /\ Len(actions) = 1
    /\ built.ncco = actions
    /\ actions[1].ActionType = "talk"
    /\ \E i \in Slots :
          /\ sub[i].kind = "talk"
          /\ sub[i].action.Text = actions[1].Text
          /\ sub[i].action.Loop # actions[1].Loop

\* the elements of a sequence
Elems(seq) == {seq[k] : k \in 1..Len(seq)}

\* C30: the type list of an InputBuilder never has a duplicate nor a value
\* other than "speech" and "dtmf"; it is empty at creation, Speech, DTMF and
\* SpeechAndDTMF add exactly their modalities, a repeated Speech or DTMF
\* leaves the list as it is, and no other call changes it.
C30_InputTypesAreASet ==
    [][ \A i \in Slots :
          LET old == sub[i].action.Type
              new == sub'[i].action.Type
          IN
          /\ sub'[i].kind = "input" =>
                /\ Elems(new) \subseteq {"speech", "dtmf"}
                /\ Cardinality(Elems(new)) = Len(new)
          /\ Input(i) => new = <<>>
          /\ Speech(i) =>
                /\ Elems(new) = Elems(old) \cup {"speech"}
                /\ "speech" \in Elems(old) => new = old
          /\ DTMF(i) =>
                /\ Elems(new) = Elems(old) \cup {"dtmf"}
                /\ "dtmf" \in Elems(old) => new = old
          /\ SpeechAndDTMF(i) => Elems(new) = {"speech", "dtmf"}
          /\ (sub[i].kind = "input" /\ sub'[i].kind = "input" /\ new # old) =>
                Speech(i) \/ DTMF(i) \/ SpeechAndDTMF(i) \/ Input(i) ]_vars

\* Input().DTMF().Speech() followed by a second DTMF() or Speech()
C30_Witness ==
    /\ nops = 4
    /\ actions = <<>>
    /\ \E i \in Slots :
          sub[i] = Builder("input", [ZeroAction EXCEPT !.ActionType = "input",
                                                        !.Type = <<"dtmf", "speech">>])

\* C26: every cached record is stored under its own SessionID, and a record
\* returned by GetSession(id) has SessionID id.
C26_KeyIsSessionID ==
    /\ \A id \in DOMAIN sessions : sessions[id].SessionID = id
    /\ (ret.op = "GetSession" /\ ret.err = ErrNil) => ret.session.SessionID = ret.arg

\* GetSession has returned a mock record while a remotely created record of
\* the same spot is cached as well
C26_Witness ==
    /\ ret.op = "GetSession"
    /\ ret.err = ErrNil
    /\ ret.session.IsMock
    /\ ret.arg \in DOMAIN sessions
    /\ \E id \in DOMAIN sessions :
          ~sessions[id].IsMock /\ sessions[id].SpotID = ret.session.SpotID

\* goroutine p's scan of the cache ends in this step
ScanEnds(p) == pc[p] \in {"scan", "goc_scan"} /\ pc'[p] # pc[p]

\* a cached record the topic lookup may serve for spotID
Servable(s, spotID) ==
    s.SpotID = spotID /\ s.SessionID # EmptyID /\ now <= s.ExpiresAt

\* a record has been cached under the empty id for spotID
EmptyIdCached(spotID) ==
    EmptyID \in DOMAIN sessions /\ sessions[EmptyID].SpotID = spotID

\* C27 as stated: the topic lookup serves a cached record only if its SpotID
\* is the requested one, its SessionID is non-empty and it has not expired,
\* and once a record with an empty SessionID is cached for a spot every
\* later call for that spot goes on to a new creation.
C27_EmptyIdAlwaysCreatesAnew ==
    [][ \A p \in Procs : ScanEnds(p) =>
          /\ pc'[p] = "idle" =>
                /\ ret'.session \in {sessions[id] : id \in DOMAIN sessions}
                /\ Servable(ret'.session, call[p].spotID)
          /\ EmptyIdCached(call[p].spotID) => pc'[p] # "idle" ]_vars

\* C27 amended: the topic lookup serves a cached record only if its SpotID
\* is the requested one, its SessionID is non-empty and it has not expired; a
\* record with an empty SessionID is never served, and a call goes on to a
\* new creation exactly when the cache holds no servable record for the spot.
C27_EmptyIdNeverServed ==
    [][ \A p \in Procs : ScanEnds(p) =>
          /\ pc'[p] = "idle" =>
                /\ ret'.session \in {sessions[id] : id \in DOMAIN sessions}
                /\ Servable(ret'.session, call[p].spotID)
          /\ pc'[p] # "idle" <=>
                ~ \E id \in DOMAIN sessions : Servable(sessions[id], call[p].spotID)
          /\ (pc[p] = "scan" /\ pc'[p] # "idle") =>
                pc'[p] = IF IsConfigured(client) THEN "api" ELSE "mock" ]_vars

\* both racing calls were answered without an id, so that only the record
\* with the empty id was cached, and the next call for the spot created a
\* session remotely
C27_Witness ==
    /\ \A p \in Procs : pc[p] = "idle"
    /\ ncalls = 1
    /\ DOMAIN sessions = {EmptyID, RealID(1)}
    /\ ret.op \in SpotOps
    /\ ret.proc = SeqProc
    /\ ret.api = "ok"
    /\ EmptyIdCached(ret.arg)
    /\ ret.session.SessionID = RealID(1)

\* C28: only CleanupExpiredSessions removes entries, and only expired ones:
\* GetSession, CachedSessionCount and a cache hit leave the map as it is and
\* a creation adds or replaces one entry; so an expired record stays cached,
\* reported as ErrSessionExpired and counted, until a sweep removes it.
C28_OnlySweepRemoves ==
    [][ /\ ~(DOMAIN sessions \subseteq DOMAIN sessions') =>
              /\ ret'.op = "CleanupExpiredSessions"
              /\ pc' = pc
              /\ \A id \in DOMAIN sessions :
                    id \notin DOMAIN sessions' <=> IsExpired(sessions[id], now)
              /\ ret'.n = Cardinality(DOMAIN sessions \ DOMAIN sessions')
        /\ (ret' # ret /\ ret'.op \in {"GetSession", "CachedSessionCount"}) =>
              sessions' = sessions
        /\ (ret' # ret /\ ret'.op = "CachedSessionCount") =>
              ret'.n = Cardinality(DOMAIN sessions)
        /\ (ret' # ret /\ ret'.op = "GetSession" /\ ret'.arg \in DOMAIN sessions
              /\ IsExpired(sessions[ret'.arg], now)) =>
              ret'.err = ErrSessionExpired
        /\ \A p \in Procs :
              /\ (ScanEnds(p) /\ pc'[p] = "idle") => sessions' = sessions
              /\ (pc[p] \in {"insert", "mock_insert"} /\ pc'[p] = "idle") =>
                    /\ Cardinality(DOMAIN sessions' \ DOMAIN sessions) <= 1
                    /\ ret'.session.SessionID \in DOMAIN sessions' ]_vars

\* the session with id 1 was cached, expired and swept, and GetSession now
\* reports it as not found
C28_Witness ==
    /\ \A p \in Procs : pc[p] = "idle"
    /\ nextId >= 2
    /\ RealID(1) \notin DOMAIN sessions
    /\ ret.op = "GetSession"
    /\ ret.arg = RealID(1)
    /\ ret.err = ErrSessionNotFound

\* C29: GetOrCreateSession behaves as CreateSessionForSpot does: its own scan
\* serves exactly the records CreateSessionForSpot's scan would serve and
\* leaves the cache as it is; on a miss it runs CreateSessionForSpot with the
\* same spotID on the unchanged cache; either call makes at most one remote
\* creation call and returns a record of the requested spot that is cached
\* under its id.
C29_GetOrCreateIsCreateForSpot ==
    [][ \A p \in Procs :
          /\ (pc[p] = "goc_scan" /\ pc'[p] # pc[p]) =>
                /\ sessions' = sessions
                /\ call[p].api = "none"
                /\ IF \E id \in DOMAIN sessions : Servable(sessions[id], call[p].spotID)
                   THEN /\ pc'[p] = "idle"
                        /\ ret'.op = "GetOrCreateSession"
                        /\ ret'.api = "none"
                        /\ ret'.err = ErrNil
                        /\ ret'.session \in {sessions[id] : id \in DOMAIN sessions}
                        /\ Servable(ret'.session, call[p].spotID)
                   ELSE /\ pc'[p] = "relock"
                        /\ call'[p] = call[p]
          /\ (pc[p] = "relock" /\ pc'[p] # pc[p]) =>
                /\ pc'[p] = "scan"
                /\ p \in readers'
                /\ sessions' = sessions
                /\ call'[p] = call[p]
          /\ (pc[p] = "api" /\ pc'[p] # pc[p]) =>
                call[p].api = "none" /\ call'[p].api # "none"
          /\ (Returns(p) /\ ret'.op \in SpotOps) =>
                /\ ret'.err = ErrNil
                /\ ret'.session.SpotID = ret'.arg
                /\ ret'.session.SessionID \in DOMAIN sessions'
                /\ sessions'[ret'.session.SessionID] = ret'.session ]_vars

\* the caller's own racing call had cached only a record with an empty id,
\* and its GetOrCreateSession was served the record the other racing call
\* inserted, without a remote call
C29_Witness ==
    /\ ret.op = "GetOrCreateSession"
    /\ ret.proc = SeqProc
    /\ ret.api = "none"
    /\ ret.err = ErrNil
    /\ ret.session.SessionID = RealID(1)
    /\ DOMAIN sessions = {EmptyID, RealID(1)}
    /\ ncalls = 1

=============================================================================
